---------------------------- MODULE Spec2Model ----------------------------
(*
  The recipe catalog of src/main.py: one SQLite table `recipes`, the startup
  seeding routine, the per-request session dependency get_db, and the six
  route handlers.

  A column holds a string.  LIKE matching, str.split and str.strip work on
  the string's characters: chars_of gives each string of the model as the
  sequence of its characters, and the text operators are defined on such
  sequences.  A submitted form is a multi-dict: each key maps to the sequence
  of values sent under it (<<>> when the key was not sent).
*)
EXTENDS Integers, Sequences, FiniteSets, TLC

-----------------------------------------------------------------------------
(* Bounds of the model *)

\* user rows that may be added on top of the seed rows
MaxAdds == 2

\* runs of on_startup (process starts) under Spec
MaxStartups == 2

\* length of a search query
MaxQueryLen == 2

\* request slots: requests in flight at the same time
Slots == {1, 2}

\* server processes started against the same database file under SpecConc
Procs == {1, 2}

-----------------------------------------------------------------------------
(* Text *)

UpperCase ==
  <<"A","B","C","D","E","F","G","H","I","J","K","L","M","N","O","P","Q","R","S","T","U","V","W","X","Y","Z">>

LowerCase ==
  <<"a","b","c","d","e","f","g","h","i","j","k","l","m","n","o","p","q","r","s","t","u","v","w","x","y","z">>

\* SQLite lower(): folds the 26 ASCII capitals and nothing else
lower_char(c) ==
  IF \E i \in 1..Len(UpperCase) : UpperCase[i] = c
    THEN LowerCase[CHOOSE i \in 1..Len(UpperCase) : UpperCase[i] = c]
    ELSE c

lower(s) ==
  [i \in 1..Len(s) |-> lower_char(s[i])]

\* str.strip() with no argument removes leading and trailing whitespace
Whitespace ==
  {" ", "\t", "\n"}

RECURSIVE lstrip(_)
lstrip(s) ==
  IF s # <<>> /\ Head(s) \in Whitespace THEN lstrip(Tail(s)) ELSE s

RECURSIVE rstrip(_)
rstrip(s) ==
  IF s # <<>> /\ s[Len(s)] \in Whitespace THEN rstrip(SubSeq(s, 1, Len(s) - 1)) ELSE s

strip(s) ==
  rstrip(lstrip(s))

\* str.split(sep) for a one-character sep: n separators give n + 1 fragments
RECURSIVE split(_, _)
split(s, sep) ==
  IF \E i \in 1..Len(s) : s[i] = sep
    THEN LET i == CHOOSE i \in 1..Len(s) : s[i] = sep /\ \A j \in 1..(i - 1) : s[j] # sep
         IN  <<SubSeq(s, 1, i - 1)>> \o split(SubSeq(s, i + 1, Len(s)), sep)
    ELSE <<s>>

\* split_strip without its `if item.strip()`
split_strip_keep_empty(text, sep) ==
  LET items == split(text, sep)
  IN  [k \in 1..Len(items) |-> strip(items[k])]

\* [item.strip() for item in text.split(sep) if item.strip()]
split_strip(text, sep) ==
  LET items == split(text, sep)
      kept  == SelectSeq(items, LAMBDA item : strip(item) # <<>>)
  IN  [k \in 1..Len(kept) |-> strip(kept[k])]

\* SQL LIKE: % matches any run of characters, _ any one character, every
\* other pattern character matches itself.  like_ends(s, p, k) is the set of
\* lengths of the prefixes of s that the first k pattern characters match.
RECURSIVE like_ends(_, _, _)
like_ends(s, p, k) ==
  IF k = 0 THEN {0}
  ELSE LET before == like_ends(s, p, k - 1)
       IN  IF p[k] = "%"
             THEN {j \in 0..Len(s) : \E i \in before : i <= j}
           ELSE IF p[k] = "_"
             THEN {i + 1 : i \in {i \in before : i < Len(s)}}
           ELSE {i + 1 : i \in {i \in before : i < Len(s) /\ s[i + 1] = p[k]}}

like(s, p) ==
  Len(s) \in like_ends(s, p, Len(p))

\* Column.ilike(pattern) on SQLite is rendered lower(column) LIKE lower(pattern)
ilike(column, pattern) ==
  like(lower(column), lower(pattern))

-----------------------------------------------------------------------------
(* Rows and the seed data *)

\* Recipe(**kwargs): a row not yet flushed has no id
Recipe(name, cuisine, prep_time, cook_time, servings, ingredients, instructions, image_color) ==
  [name |-> name, cuisine |-> cuisine, prep_time |-> prep_time,
   cook_time |-> cook_time, servings |-> servings, ingredients |-> ingredients,
   instructions |-> instructions, image_color |-> image_color]

\* the columns of a stored row other than its primary key
columns(row) ==
  Recipe(row.name, row.cuisine, row.prep_time, row.cook_time, row.servings,
         row.ingredients, row.instructions, row.image_color)

recipes_data ==
  <<
    [
      name |-> "Spaghetti Carbonara",
      cuisine |-> "Italian",
      prep_time |-> "15 min",
      cook_time |-> "20 min",
      servings |-> "4",
      ingredients |-> "Pasta, Eggs, Pecorino Romano, Guanciale/Pancetta, Black Pepper",
      instructions |-> "1. Cook pasta. 2. Fry guanciale. 3. Mix eggs, cheese, pepper. 4. Combine all.",
      image_color |-> "#F4A261"
    ],
    [
      name |-> "Chicken Tikka Masala",
      cuisine |-> "Indian",
      prep_time |-> "30 min",
      cook_time |-> "45 min",
      servings |-> "6",
      ingredients |-> "Chicken, Yogurt, Spices, Tomatoes, Cream",
      instructions |-> "1. Marinate chicken. 2. Cook chicken. 3. Make sauce. 4. Combine.",
      image_color |-> "#E76F51"
    ],
    [
      name |-> "Beef Tacos",
      cuisine |-> "Mexican",
      prep_time |-> "20 min",
      cook_time |-> "25 min",
      servings |-> "4",
      ingredients |-> "Ground Beef, Tortillas, Lettuce, Cheese, Salsa, Taco Seasoning",
      instructions |-> "1. Cook beef. 2. Warm tortillas. 3. Assemble tacos.",
      image_color |-> "#2A9D8F"
    ],
    [
      name |-> "Sushi Rolls",
      cuisine |-> "Japanese",
      prep_time |-> "60 min",
      cook_time |-> "0 min",
      servings |-> "2",
      ingredients |-> "Sushi Rice, Nori, Fish, Avocado, Cucumber",
      instructions |-> "1. Cook sushi rice. 2. Prepare fillings. 3. Roll sushi.",
      image_color |-> "#E9C46A"
    ],
    [
      name |-> "French Onion Soup",
      cuisine |-> "French",
      prep_time |-> "20 min",
      cook_time |-> "60 min",
      servings |-> "4",
      ingredients |-> "Onions, Beef Broth, Baguette, Gruyere Cheese, Butter",
      instructions |-> "1. Caramelize onions. 2. Add broth. 3. Toast bread, melt cheese.",
      image_color |-> "#DDA15E"
    ],
    [
      name |-> "Pad Thai",
      cuisine |-> "Thai",
      prep_time |-> "25 min",
      cook_time |-> "30 min",
      servings |-> "2",
      ingredients |-> "Rice Noodles, Shrimp/Tofu, Peanuts, Bean Sprouts, Egg, Tamarind Sauce",
      instructions |-> "1. Soak noodles. 2. Cook protein. 3. Stir-fry with sauce and veggies.",
      image_color |-> "#F5D491"
    ],
    [
      name |-> "Mediterranean Salad",
      cuisine |-> "Mediterranean",
      prep_time |-> "15 min",
      cook_time |-> "0 min",
      servings |-> "3",
      ingredients |-> "Cucumbers, Tomatoes, Feta, Olives, Red Onion, Olive Oil, Lemon Juice",
      instructions |-> "1. Chop veggies. 2. Crumble feta. 3. Dress and serve.",
      image_color |-> "#8BC34A"
    ],
    [
      name |-> "Classic Lasagna",
      cuisine |-> "Italian",
      prep_time |-> "30 min",
      cook_time |-> "60 min",
      servings |-> "8",
      ingredients |-> "Lasagna Noodles, Ground Beef, Ricotta, Mozzarella, Marinara Sauce",
      instructions |-> "1. Cook meat sauce. 2. Layer noodles, sauce, cheese. 3. Bake.",
      image_color |-> "#CD5C5C"
    ]
  >>

\* the characters of every string that a searched or a split column can hold
\* within the bounds of the model
chars_of ==
  ("" :> <<>>)
    @@ ("Spaghetti Carbonara" :>
          <<"S","p","a","g","h","e","t","t","i"," ","C","a","r","b","o","n","a","r","a">>)
    @@ ("Italian" :>
          <<"I","t","a","l","i","a","n">>)
    @@ ("Pasta, Eggs, Pecorino Romano, Guanciale/Pancetta, Black Pepper" :>
          <<"P","a","s","t","a",","," ","E","g","g","s",","," ","P","e","c","o","r","i","n","o"," ","R","o","m","a","n","o",","," ","G","u","a","n","c","i","a","l","e","/","P","a","n","c","e","t","t","a",","," ","B","l","a","c","k"," ","P","e","p","p","e","r">>)
    @@ ("1. Cook pasta. 2. Fry guanciale. 3. Mix eggs, cheese, pepper. 4. Combine all." :>
          <<"1","."," ","C","o","o","k"," ","p","a","s","t","a","."," ","2","."," ","F","r","y"," ","g","u","a","n","c","i","a","l","e","."," ","3","."," ","M","i","x"," ","e","g","g","s",","," ","c","h","e","e","s","e",","," ","p","e","p","p","e","r","."," ","4","."," ","C","o","m","b","i","n","e"," ","a","l","l",".">>)
    @@ ("Chicken Tikka Masala" :>
          <<"C","h","i","c","k","e","n"," ","T","i","k","k","a"," ","M","a","s","a","l","a">>)
    @@ ("Indian" :>
          <<"I","n","d","i","a","n">>)
    @@ ("Chicken, Yogurt, Spices, Tomatoes, Cream" :>
          <<"C","h","i","c","k","e","n",","," ","Y","o","g","u","r","t",","," ","S","p","i","c","e","s",","," ","T","o","m","a","t","o","e","s",","," ","C","r","e","a","m">>)
    @@ ("1. Marinate chicken. 2. Cook chicken. 3. Make sauce. 4. Combine." :>
          <<"1","."," ","M","a","r","i","n","a","t","e"," ","c","h","i","c","k","e","n","."," ","2","."," ","C","o","o","k"," ","c","h","i","c","k","e","n","."," ","3","."," ","M","a","k","e"," ","s","a","u","c","e","."," ","4","."," ","C","o","m","b","i","n","e",".">>)
    @@ ("Beef Tacos" :>
          <<"B","e","e","f"," ","T","a","c","o","s">>)
    @@ ("Mexican" :>
          <<"M","e","x","i","c","a","n">>)
    @@ ("Ground Beef, Tortillas, Lettuce, Cheese, Salsa, Taco Seasoning" :>
          <<"G","r","o","u","n","d"," ","B","e","e","f",","," ","T","o","r","t","i","l","l","a","s",","," ","L","e","t","t","u","c","e",","," ","C","h","e","e","s","e",","," ","S","a","l","s","a",","," ","T","a","c","o"," ","S","e","a","s","o","n","i","n","g">>)
    @@ ("1. Cook beef. 2. Warm tortillas. 3. Assemble tacos." :>
          <<"1","."," ","C","o","o","k"," ","b","e","e","f","."," ","2","."," ","W","a","r","m"," ","t","o","r","t","i","l","l","a","s","."," ","3","."," ","A","s","s","e","m","b","l","e"," ","t","a","c","o","s",".">>)
    @@ ("Sushi Rolls" :>
          <<"S","u","s","h","i"," ","R","o","l","l","s">>)
    @@ ("Japanese" :>
          <<"J","a","p","a","n","e","s","e">>)
    @@ ("Sushi Rice, Nori, Fish, Avocado, Cucumber" :>
          <<"S","u","s","h","i"," ","R","i","c","e",","," ","N","o","r","i",","," ","F","i","s","h",","," ","A","v","o","c","a","d","o",","," ","C","u","c","u","m","b","e","r">>)
    @@ ("1. Cook sushi rice. 2. Prepare fillings. 3. Roll sushi." :>
          <<"1","."," ","C","o","o","k"," ","s","u","s","h","i"," ","r","i","c","e","."," ","2","."," ","P","r","e","p","a","r","e"," ","f","i","l","l","i","n","g","s","."," ","3","."," ","R","o","l","l"," ","s","u","s","h","i",".">>)
    @@ ("French Onion Soup" :>
          <<"F","r","e","n","c","h"," ","O","n","i","o","n"," ","S","o","u","p">>)
    @@ ("French" :>
          <<"F","r","e","n","c","h">>)
    @@ ("Onions, Beef Broth, Baguette, Gruyere Cheese, Butter" :>
          <<"O","n","i","o","n","s",","," ","B","e","e","f"," ","B","r","o","t","h",","," ","B","a","g","u","e","t","t","e",","," ","G","r","u","y","e","r","e"," ","C","h","e","e","s","e",","," ","B","u","t","t","e","r">>)
    @@ ("1. Caramelize onions. 2. Add broth. 3. Toast bread, melt cheese." :>
          <<"1","."," ","C","a","r","a","m","e","l","i","z","e"," ","o","n","i","o","n","s","."," ","2","."," ","A","d","d"," ","b","r","o","t","h","."," ","3","."," ","T","o","a","s","t"," ","b","r","e","a","d",","," ","m","e","l","t"," ","c","h","e","e","s","e",".">>)
    @@ ("Pad Thai" :>
          <<"P","a","d"," ","T","h","a","i">>)
    @@ ("Thai" :>
          <<"T","h","a","i">>)
    @@ ("Rice Noodles, Shrimp/Tofu, Peanuts, Bean Sprouts, Egg, Tamarind Sauce" :>
          <<"R","i","c","e"," ","N","o","o","d","l","e","s",","," ","S","h","r","i","m","p","/","T","o","f","u",","," ","P","e","a","n","u","t","s",","," ","B","e","a","n"," ","S","p","r","o","u","t","s",","," ","E","g","g",","," ","T","a","m","a","r","i","n","d"," ","S","a","u","c","e">>)
    @@ ("1. Soak noodles. 2. Cook protein. 3. Stir-fry with sauce and veggies." :>
          <<"1","."," ","S","o","a","k"," ","n","o","o","d","l","e","s","."," ","2","."," ","C","o","o","k"," ","p","r","o","t","e","i","n","."," ","3","."," ","S","t","i","r","-","f","r","y"," ","w","i","t","h"," ","s","a","u","c","e"," ","a","n","d"," ","v","e","g","g","i","e","s",".">>)
    @@ ("Mediterranean Salad" :>
          <<"M","e","d","i","t","e","r","r","a","n","e","a","n"," ","S","a","l","a","d">>)
    @@ ("Mediterranean" :>
          <<"M","e","d","i","t","e","r","r","a","n","e","a","n">>)
    @@ ("Cucumbers, Tomatoes, Feta, Olives, Red Onion, Olive Oil, Lemon Juice" :>
          <<"C","u","c","u","m","b","e","r","s",","," ","T","o","m","a","t","o","e","s",","," ","F","e","t","a",","," ","O","l","i","v","e","s",","," ","R","e","d"," ","O","n","i","o","n",","," ","O","l","i","v","e"," ","O","i","l",","," ","L","e","m","o","n"," ","J","u","i","c","e">>)
    @@ ("1. Chop veggies. 2. Crumble feta. 3. Dress and serve." :>
          <<"1","."," ","C","h","o","p"," ","v","e","g","g","i","e","s","."," ","2","."," ","C","r","u","m","b","l","e"," ","f","e","t","a","."," ","3","."," ","D","r","e","s","s"," ","a","n","d"," ","s","e","r","v","e",".">>)
    @@ ("Classic Lasagna" :>
          <<"C","l","a","s","s","i","c"," ","L","a","s","a","g","n","a">>)
    @@ ("Lasagna Noodles, Ground Beef, Ricotta, Mozzarella, Marinara Sauce" :>
          <<"L","a","s","a","g","n","a"," ","N","o","o","d","l","e","s",","," ","G","r","o","u","n","d"," ","B","e","e","f",","," ","R","i","c","o","t","t","a",","," ","M","o","z","z","a","r","e","l","l","a",","," ","M","a","r","i","n","a","r","a"," ","S","a","u","c","e">>)
    @@ ("1. Cook meat sauce. 2. Layer noodles, sauce, cheese. 3. Bake." :>
          <<"1","."," ","C","o","o","k"," ","m","e","a","t"," ","s","a","u","c","e","."," ","2","."," ","L","a","y","e","r"," ","n","o","o","d","l","e","s",","," ","s","a","u","c","e",","," ","c","h","e","e","s","e","."," ","3","."," ","B","a","k","e",".">>)
    @@ ("Iced Tea" :>
          <<"I","c","e","d"," ","T","e","a">>)
    @@ ("UK" :>
          <<"U","K">>)
    @@ (" Tea ,, \t,Milk 1%," :>
          <<" ","T","e","a"," ",",",","," ","\t",",","M","i","l","k"," ","1","%",",">>)
    @@ ("Boil..\nPour it ." :>
          <<"B","o","i","l",".",".","\n","P","o","u","r"," ","i","t"," ",".">>)

-----------------------------------------------------------------------------
(* Form binding of POST /add_recipe *)

\* RequiredFields with name declared optional
RequiredFieldsWithoutName ==
  {"cuisine", "prep_time", "cook_time", "servings", "ingredients", "instructions"}

\* name .. instructions are declared Form(...): required
RequiredFields ==
  {"name", "cuisine", "prep_time", "cook_time", "servings", "ingredients", "instructions"}

\* image_color: Optional[str] = Form("#cccccc")
DefaultColor ==
  "#cccccc"

\* a Form(...) parameter has no default: a request that leaves it out is
\* answered before binding yields any value for it
Unset ==
  ""

missing(form) ==
  {f \in RequiredFields : form[f] = <<>>}

bound(form, key, default) ==
  IF form[key] = <<>> THEN default ELSE form[key][Len(form[key])]

\* new_recipe with prep_time and cook_time passed in each other's place
new_recipe_swapped(form) ==
  Recipe(bound(form, "name", Unset), bound(form, "cuisine", Unset),
         bound(form, "cook_time", Unset), bound(form, "prep_time", Unset),
         bound(form, "servings", Unset), bound(form, "ingredients", Unset),
         bound(form, "instructions", Unset), bound(form, "image_color", DefaultColor))

\* the Recipe(...) call of add_recipe_submit on the bound parameters
new_recipe(form) ==
  Recipe(bound(form, "name", Unset), bound(form, "cuisine", Unset),
         bound(form, "prep_time", Unset), bound(form, "cook_time", Unset),
         bound(form, "servings", Unset), bound(form, "ingredients", Unset),
         bound(form, "instructions", Unset), bound(form, "image_color", DefaultColor))

-----------------------------------------------------------------------------
(* Inputs.  A key is either not sent or sent once with a non-empty value. *)

Sent(text) ==
  <<text>>

NotSent ==
  <<>>

NameValues ==
  {NotSent, Sent("Iced Tea")}

CuisineValues ==
  {NotSent, Sent("UK")}

PrepTimeValues ==
  {NotSent, Sent("5 min")}

CookTimeValues ==
  {NotSent, Sent("9 min")}

ServingsValues ==
  {NotSent, Sent("2")}

IngredientsValues ==
  {NotSent, Sent(" Tea ,, \t,Milk 1%,")}

InstructionsValues ==
  {NotSent, Sent("Boil..\nPour it .")}

ColorValues ==
  {NotSent, Sent("#fff")}

AllForms ==
  [name : NameValues, cuisine : CuisineValues, prep_time : PrepTimeValues,
   cook_time : CookTimeValues, servings : ServingsValues,
   ingredients : IngredientsValues, instructions : InstructionsValues,
   image_color : ColorValues]

\* submissions with every required field sent, or with exactly one left out
Forms ==
  {form \in AllForms : Cardinality(missing(form)) <= 1}

NoForm ==
  [name |-> NotSent, cuisine |-> NotSent, prep_time |-> NotSent, cook_time |-> NotSent,
   servings |-> NotSent, ingredients |-> NotSent, instructions |-> NotSent,
   image_color |-> NotSent]

QueryChars ==
  {"e", "T", "%"}

RECURSIVE TextsUpTo(_)
TextsUpTo(n) ==
  IF n = 0 THEN {<<>>}
  ELSE LET shorter == TextsUpTo(n - 1)
       IN  shorter \cup {Append(t, c) : t \in shorter, c \in QueryChars}

Queries ==
  TextsUpTo(MaxQueryLen)

\* what can go wrong inside the try block of add_recipe_submit: nothing, an
\* exception in db.add, an IntegrityError or another exception in db.commit,
\* an exception in db.refresh
Faults ==
  {"none", "add", "commit_integrity", "commit", "refresh"}

\* the table is not grown past the seed rows and MaxAdds more
MaxRows ==
  Len(recipes_data) + MaxAdds

RecipeIds ==
  0..(MaxRows + 1)

-----------------------------------------------------------------------------
(* The table *)

\* id = Column(Integer, primary_key=True): SQLite assigns max(rowid) + 1
next_id(table) ==
  IF table = <<>> THEN 1
  ELSE 1 + CHOOSE m \in {table[i].id : i \in 1..Len(table)} :
             \A i \in 1..Len(table) : table[i].id <= m

flushed(row, id) ==
  [id |-> id, name |-> row.name, cuisine |-> row.cuisine, prep_time |-> row.prep_time,
   cook_time |-> row.cook_time, servings |-> row.servings, ingredients |-> row.ingredients,
   instructions |-> row.instructions, image_color |-> row.image_color]

\* db.commit(): the rows added to the session are inserted in the order they
\* were added, each with the next id, and the transaction is committed
commit(table, pending) ==
  [i \in 1..(Len(table) + Len(pending)) |->
     IF i <= Len(table) THEN table[i]
     ELSE flushed(pending[i - Len(table)], next_id(table) + (i - Len(table)) - 1)]

\* db.query(Recipe).count()
query_count(table) ==
  Len(table)

\* query_all, newest row first
query_all_reversed(table) ==
  [i \in 1..Len(table) |-> table[Len(table) + 1 - i]]

\* db.query(Recipe).all(): no ORDER BY; SQLite scans the table in rowid order
query_all(table) ==
  table

\* db.query(Recipe).filter(Recipe.id == recipe_id).first(): <<>> stands for None
query_first(table, recipe_id) ==
  LET found == SelectSeq(table, LAMBDA row : row.id = recipe_id)
  IN  IF found = <<>> THEN <<>> ELSE <<found[1]>>

\* every text a searched column can hold within the bounds
SearchTexts ==
  {recipes_data[i].name : i \in 1..Len(recipes_data)}
    \cup {recipes_data[i].ingredients : i \in 1..Len(recipes_data)}
    \cup {recipes_data[i].cuisine : i \in 1..Len(recipes_data)}
    \cup {v[1] : v \in (NameValues \cup IngredientsValues \cup CuisineValues) \ {NotSent}}

\* search_pattern = f"%{query}%"
SearchPatterns ==
  {<<"%">> \o query \o <<"%">> : query \in Queries \ {<<>>}}

\* ilike, tabulated over the patterns and texts of the model
ilike_of ==
  [pattern \in SearchPatterns |-> [text \in SearchTexts |-> ilike(chars_of[text], pattern)]]

\* every text the ingredients and instructions columns can hold within the bounds
ListTexts ==
  {recipes_data[i].ingredients : i \in 1..Len(recipes_data)}
    \cup {recipes_data[i].instructions : i \in 1..Len(recipes_data)}
    \cup {v[1] : v \in (IngredientsValues \cup InstructionsValues) \ {NotSent}}

\* split_strip, tabulated over the texts of the model
split_strip_of ==
  [sep \in {",", "."} |-> [text \in ListTexts |-> split_strip(chars_of[text], sep)]]

\* the filter of search_recipes; the three ilike tests are read from ilike_of
query_filter(table, search_pattern) ==
  SelectSeq(table, LAMBDA row :
    \/ ilike_of[search_pattern][row.name]
    \/ ilike_of[search_pattern][row.ingredients]
    \/ ilike_of[search_pattern][row.cuisine])

\* seed_database without the emptiness check
seed_database_unchecked(table) ==
  commit(table, recipes_data)

\* seed_database that recreates the table content
seed_database_reset(table) ==
  commit(<<>>, recipes_data)

\* seed_database(db), run to completion against the table
seed_database(table) ==
  IF query_count(table) = 0 THEN commit(table, recipes_data) ELSE table

-----------------------------------------------------------------------------
(* State *)

VARIABLES
  store,        \* the committed rows of table recipes, in rowid order
  startups,     \* how many times on_startup has run (Spec)
  seed_pc,      \* where each process is in on_startup (SpecConc)
  seed_pending, \* the rows each process's startup session has added, uncommitted
  pc,           \* where each request slot is: idle, yielded, returned, raised
  session,      \* the session get_db made for the slot's request: open or closed
  last          \* the response of the handler that ran last

vars ==
  <<store, startups, seed_pc, seed_pending, pc, session, last>>

Response(kind) ==
  [kind |-> kind, status |-> 200, template |-> "none", error |-> "none",
   recipes |-> <<>>, ingredients_list |-> <<>>, instructions_list |-> <<>>,
   query |-> <<>>, recipe_id |-> -1, form |-> NoForm, fault |-> "none"]

Init ==
  /\ store = <<>>
  /\ startups = 0
  /\ seed_pc = [p \in Procs |-> "new"]
  /\ seed_pending = [p \in Procs |-> <<>>]
  /\ pc = [r \in Slots |-> "idle"]
  /\ session = [r \in Slots |-> "closed"]
  /\ last = Response("none")

\* requests are served once a process has finished its startup
Serving ==
  startups > 0 \/ \E p \in Procs : seed_pc[p] = "serving"

Quiet ==
  \A r \in Slots : pc[r] = "idle"

-----------------------------------------------------------------------------
(* Startup *)

\* on_startup in a single server process: SessionLocal(), seed_database(db),
\* db.close(), before any request is served
on_startup ==
  /\ startups < MaxStartups
  /\ Quiet
  /\ store' = seed_database(store)
  /\ startups' = startups + 1
  /\ UNCHANGED <<seed_pc, seed_pending, pc, session, last>>

\* on_startup step by step, for processes started side by side
\* line 43: the emptiness check
seed_check(p) ==
  /\ seed_pc[p] = "new"
  /\ seed_pc' = [seed_pc EXCEPT ![p] = IF query_count(store) = 0 THEN "empty" ELSE "closing"]
  /\ UNCHANGED <<store, startups, seed_pending, pc, session, last>>

\* lines 126-128: db.add of every demo recipe
seed_add(p) ==
  /\ seed_pc[p] = "empty"
  /\ seed_pending' = [seed_pending EXCEPT ![p] = recipes_data]
  /\ seed_pc' = [seed_pc EXCEPT ![p] = "added"]
  /\ UNCHANGED <<store, startups, pc, session, last>>

\* line 129: db.commit()
seed_commit(p) ==
  /\ seed_pc[p] = "added"
  /\ store' = commit(store, seed_pending[p])
  /\ seed_pending' = [seed_pending EXCEPT ![p] = <<>>]
  /\ seed_pc' = [seed_pc EXCEPT ![p] = "closing"]
  /\ UNCHANGED <<startups, pc, session, last>>

\* line 144: db.close(); the process starts serving
seed_close(p) ==
  /\ seed_pc[p] = "closing"
  /\ seed_pc' = [seed_pc EXCEPT ![p] = "serving"]
  /\ UNCHANGED <<store, startups, seed_pending, pc, session, last>>

-----------------------------------------------------------------------------
(* The session dependency *)

\* get_db up to its yield: db = SessionLocal(); yield db
get_db_yield(r) ==
  /\ Serving
  /\ pc[r] = "idle"
  /\ pc' = [pc EXCEPT ![r] = "yielded"]
  /\ session' = [session EXCEPT ![r] = "open"]
  /\ UNCHANGED <<store, startups, seed_pc, seed_pending, last>>

\* get_db without try/finally: the close is skipped when the handler raised
get_db_exit_without_finally(state, how) ==
  IF how = "raised" THEN state ELSE "closed"

\* the session after the generator is resumed, by the handler's return or by
\* the exception it raised: finally: db.close()
get_db_exit(state, how) ==
  "closed"

get_db_finally(r) ==
  /\ pc[r] \in {"returned", "raised"}
  /\ pc' = [pc EXCEPT ![r] = "idle"]
  /\ session' = [session EXCEPT ![r] = get_db_exit(session[r], pc[r])]
  /\ UNCHANGED <<store, startups, seed_pc, seed_pending, last>>

-----------------------------------------------------------------------------
(* Route handlers.  Each is an async def that never awaits: its body runs
   to completion on the event loop, between the dependency's two halves. *)

\* GET /health: touches neither a session nor the table; the dict it
\* returns is handed to HTMLResponse, whose rendering is the framework's
health_check ==
  /\ Serving
  /\ \E status \in {200, 500} :
       last' = [Response("health_check") EXCEPT !.status = status]
  /\ UNCHANGED <<store, startups, seed_pc, seed_pending, pc, session>>

\* GET /
home(r) ==
  /\ pc[r] = "yielded"
  /\ LET recipes == query_all(store)
     IN  last' = [Response("home") EXCEPT !.template = "home.html", !.recipes = recipes]
  /\ pc' = [pc EXCEPT ![r] = "returned"]
  /\ UNCHANGED <<store, startups, seed_pc, seed_pending, session>>

\* GET /recipes/{recipe_id}
recipe_detail(r, recipe_id) ==
  /\ pc[r] = "yielded"
  /\ LET recipe == query_first(store, recipe_id)
     IN  IF recipe = <<>>
           THEN /\ last' = [Response("recipe_detail") EXCEPT
                              !.status = 404, !.recipe_id = recipe_id]
                /\ pc' = [pc EXCEPT ![r] = "raised"]
           ELSE /\ last' = [Response("recipe_detail") EXCEPT
                              !.template = "recipe_detail.html",
                              !.recipe_id = recipe_id,
                              !.recipes = recipe,
                              !.ingredients_list = split_strip_of[","][recipe[1].ingredients],
                              !.instructions_list = split_strip_of["."][recipe[1].instructions]]
                /\ pc' = [pc EXCEPT ![r] = "returned"]
  \* the two lists are attributes of the loaded object, not columns, and the
  \* handler never commits
  /\ UNCHANGED <<store, startups, seed_pc, seed_pending, session>>

\* GET /add_recipe
add_recipe_form ==
  /\ Serving
  /\ last' = [Response("add_recipe_form") EXCEPT !.template = "add_recipe.html"]
  /\ UNCHANGED <<store, startups, seed_pc, seed_pending, pc, session>>

\* the try block of add_recipe_submit and its two except clauses
add_recipe_try(table, form, fault) ==
  LET pending == <<new_recipe(form)>>
  IN  CASE fault = "none" ->
             \* add, commit, refresh, return RedirectResponse
             [table |-> commit(table, pending), status |-> 303,
              template |-> "none", error |-> "none"]
        [] fault = "add" ->
             \* except Exception: db.rollback()
             [table |-> table, status |-> 200,
              template |-> "add_recipe.html", error |-> "unexpected"]
        [] fault = "commit_integrity" ->
             \* except IntegrityError: db.rollback()
             [table |-> table, status |-> 200,
              template |-> "add_recipe.html", error |-> "check_input"]
        [] fault = "commit" ->
             [table |-> table, status |-> 200,
              template |-> "add_recipe.html", error |-> "unexpected"]
        [] fault = "refresh" ->
             \* db.commit() has returned: the rollback in the except clause
             \* finds nothing to undo
             [table |-> commit(table, pending), status |-> 200,
              template |-> "add_recipe.html", error |-> "unexpected"]

\* POST /add_recipe
add_recipe_submit(r, form, fault) ==
  /\ pc[r] = "yielded"
  /\ Len(store) < MaxRows
  /\ IF missing(form) # {}
       THEN \* a required Form(...) field was not sent: the request is
            \* answered 422 by the framework and the body never runs
            /\ fault = "none"
            /\ last' = [Response("add_recipe_submit") EXCEPT !.status = 422, !.form = form]
            /\ pc' = [pc EXCEPT ![r] = "raised"]
            /\ store' = store
       ELSE LET out == add_recipe_try(store, form, fault)
            IN  /\ last' = [Response("add_recipe_submit") EXCEPT
                              !.status = out.status, !.template = out.template,
                              !.error = out.error, !.form = form, !.fault = fault]
                /\ pc' = [pc EXCEPT ![r] = "returned"]
                /\ store' = out.table
  /\ UNCHANGED <<startups, seed_pc, seed_pending, session>>

\* GET /search
search_recipes(r, query) ==
  /\ pc[r] = "yielded"
  /\ LET recipes == IF query # <<>>
                      THEN query_filter(store, <<"%">> \o query \o <<"%">>)
                      ELSE <<>>
     IN  last' = [Response("search_recipes") EXCEPT
                    !.template = "search_results.html", !.recipes = recipes, !.query = query]
  /\ pc' = [pc EXCEPT ![r] = "returned"]
  /\ UNCHANGED <<store, startups, seed_pc, seed_pending, session>>

-----------------------------------------------------------------------------
(* Specifications *)

\* one server process: startup, then requests; a restart runs startup again
Next ==
  \/ on_startup
  \/ health_check
  \/ add_recipe_form
  \/ \E r \in Slots : get_db_yield(r)
  \/ \E r \in Slots : get_db_finally(r)
  \/ \E r \in Slots : home(r)
  \/ \E r \in Slots : \E recipe_id \in RecipeIds : recipe_detail(r, recipe_id)
  \/ \E r \in Slots : \E form \in Forms : \E fault \in Faults : add_recipe_submit(r, form, fault)
  \/ \E r \in Slots : \E query \in Queries : search_recipes(r, query)

Spec ==
  Init /\ [][Next]_vars

\* two server processes started side by side against one database file; once
\* a process has finished its startup, requests are served
SentForms ==
  {form \in Forms : missing(form) = {}}

NextConc ==
  \/ \E p \in Procs : seed_check(p)
  \/ \E p \in Procs : seed_add(p)
  \/ \E p \in Procs : seed_commit(p)
  \/ \E p \in Procs : seed_close(p)
  \/ get_db_yield(1)
  \/ get_db_finally(1)
  \/ home(1)
  \/ \E form \in SentForms : add_recipe_submit(1, form, "none")

SpecConc ==
  Init /\ [][NextConc]_vars

-----------------------------------------------------------------------------
(* Properties *)

\* the step just taken is the body of the handler `kind`
Handled(kind) ==
  \E r \in Slots :
    pc[r] = "yielded" /\ pc'[r] \in {"returned", "raised"} /\ last'.kind = kind

\* the step just taken is a run of on_startup
Started ==
  startups' = startups + 1

\* every required key of the submission was sent
AllSent(form) ==
  /\ form.name # <<>> /\ form.cuisine # <<>> /\ form.prep_time # <<>>
  /\ form.cook_time # <<>> /\ form.servings # <<>> /\ form.ingredients # <<>>
  /\ form.instructions # <<>>

Extends(before, after) ==
  /\ Len(after) >= Len(before)
  /\ \A i \in 1..Len(before) : after[i] = before[i]

\* how many rows of the table carry the content of a demo recipe
SeedRowCount(table) ==
  Cardinality({i \in 1..Len(table) :
                 \E k \in 1..Len(recipes_data) : columns(table[i]) = recipes_data[k]})

\* query occurs in text, letters compared without regard to case
ContainsNoCase(text, query) ==
  \E at \in 0..(Len(text) - Len(query)) :
    \A j \in 1..Len(query) : lower_char(text[at + j]) = lower_char(query[j])

\* the fragments of text between separators, each cut down to the span from
\* its first to its last non-blank character, blank fragments left out
Fragments(text, sep) ==
  LET n       == Len(text)
      Cuts    == {0, n + 1} \cup {i \in 1..n : text[i] = sep}
      Next_(a) == CHOOSE b \in Cuts : b > a /\ \A c \in Cuts : c > a => b <= c
      Ink(a)  == {i \in (a + 1)..(Next_(a) - 1) : text[i] \notin {" ", "\t", "\n"}}
      Starts  == {a \in Cuts \ {n + 1} : Ink(a) # {}}
      Nth(k)  == CHOOSE a \in Starts : Cardinality({b \in Starts : b < a}) = k - 1
      First(S) == CHOOSE i \in S : \A j \in S : i <= j
      Last_(S) == CHOOSE i \in S : \A j \in S : j <= i
  IN  [k \in 1..Cardinality(Starts) |->
         SubSeq(text, First(Ink(Nth(k))), Last_(Ink(Nth(k))))]

\* C1: a submission with all seven required fields, whose insert does not
\* fail, adds exactly one row; the row carries the submitted values, with
\* image_color "#cccccc" when none was sent, and an id no earlier row has.
C1_AddCreatesRecord ==
  [][Handled("add_recipe_submit") /\ AllSent(last'.form) /\ last'.fault = "none"
       => /\ Len(store') = Len(store) + 1
          /\ Extends(store, store')
          /\ LET row  == store'[Len(store')]
                 form == last'.form
             IN  /\ row.name = form.name[1]
                 /\ row.cuisine = form.cuisine[1]
                 /\ row.prep_time = form.prep_time[1]
                 /\ row.cook_time = form.cook_time[1]
                 /\ row.servings = form.servings[1]
                 /\ row.ingredients = form.ingredients[1]
                 /\ row.instructions = form.instructions[1]
                 /\ row.image_color = IF form.image_color = <<>>
                                        THEN "#cccccc"
                                        ELSE form.image_color[1]
                 /\ \A i \in 1..Len(store) : store[i].id # row.id]_vars

C1_Witness ==
  /\ last.kind = "add_recipe_submit"
  /\ last.status = 303
  /\ last.form.image_color = <<>>
  /\ Len(store) = 10
  /\ store[10].image_color = "#cccccc"
  /\ store[10].name = "Iced Tea"

\* C2: search returns nothing for the empty query and otherwise exactly the
\* rows whose name, ingredients or cuisine contains the query, case ignored.
C2_SearchIsSubstringFilter ==
  [][Handled("search_recipes")
       => last'.recipes =
            IF last'.query = <<>> THEN <<>>
            ELSE SelectSeq(store, LAMBDA row :
                   \/ ContainsNoCase(chars_of[row.name], last'.query)
                   \/ ContainsNoCase(chars_of[row.ingredients], last'.query)
                   \/ ContainsNoCase(chars_of[row.cuisine], last'.query))]_vars

\* C3: detail answers 404 exactly when no row has the id; otherwise it
\* returns the row with its ingredients cut at commas and its instructions
\* cut at periods, fragments trimmed, empty ones dropped, order kept.
C3_DetailContract ==
  [][Handled("recipe_detail")
       => LET hits == {i \in 1..Len(store) : store[i].id = last'.recipe_id}
          IN  IF hits = {}
                THEN last'.status = 404 /\ last'.recipes = <<>>
                ELSE /\ last'.status = 200
                     /\ \E i \in hits :
                          /\ last'.recipes = <<store[i]>>
                          /\ last'.ingredients_list = Fragments(chars_of[store[i].ingredients], ",")
                          /\ last'.instructions_list = Fragments(chars_of[store[i].instructions], ".")]_vars

C3_Witness ==
  /\ last.kind = "recipe_detail"
  /\ last.status = 200
  /\ last.recipe_id = 9
  /\ last.ingredients_list = << <<"T","e","a">>, <<"M","i","l","k"," ","1","%">> >>
  /\ last.instructions_list = << <<"B","o","i","l">>, <<"P","o","u","r"," ","i","t">> >>

\* C4: a run of startup on an empty table inserts exactly the 8 demo rows;
\* a run on a table holding any row inserts nothing; runs in sequence never
\* leave more than 8 demo rows.
C4_SeedingIdempotent ==
  [][/\ Started =>
          IF store = <<>>
            THEN /\ Len(store') = 8
                 /\ \A i \in 1..8 : columns(store'[i]) = recipes_data[i]
            ELSE store' = store
     /\ SeedRowCount(store') <= 8]_vars

C4_Witness ==
  /\ startups = 2
  /\ Len(store) = 9
  /\ SeedRowCount(store) = 8

\* C5: home returns every row of the table, in the order of insertion: the
\* 8 demo recipes in their fixed order, then each added row after all
\* earlier ones.
C5_HomeListsAllInOrder ==
  [][Handled("home")
       => LET out == last'.recipes
          IN  /\ Len(out) = Len(store)
              /\ {out[i] : i \in 1..Len(out)} = {store[i] : i \in 1..Len(store)}
              /\ \A i, j \in 1..Len(out) : i < j => out[i].id < out[j].id
              /\ Len(out) >= 8 =>
                   /\ \A i \in 1..8 : columns(out[i]) = recipes_data[i]
                   /\ out[1].name = "Spaghetti Carbonara"
                   /\ out[1].cuisine = "Italian"
                   /\ out[4].name = "Sushi Rolls"
                   /\ out[4].cuisine = "Japanese"]_vars

C5_Witness ==
  /\ last.kind = "home"
  /\ Len(last.recipes) = 10
  /\ last.recipes[9].image_color # last.recipes[10].image_color

\* C6: an insert that fails in add, commit or refresh leaves the table as it
\* was and re-renders the add form with an error, never the redirect; the
\* redirect is answered only when the row was committed.
C6_FailedInsertLeavesStore ==
  [][Handled("add_recipe_submit") /\ AllSent(last'.form)
       => /\ last'.fault # "none" =>
               /\ store' = store
               /\ last'.template = "add_recipe.html"
               /\ last'.error # "none"
               /\ last'.status # 303
          /\ last'.status = 303 => Len(store') = Len(store) + 1]_vars

C8_AppendOnly ==
  [][/\ Extends(store, store')
     /\ ~Handled("add_recipe_submit") /\ ~Started => store' = store
     /\ \A i \in 1..Len(store') :
          DOMAIN store'[i] = {"id", "name", "cuisine", "prep_time", "cook_time",
                              "servings", "ingredients", "instructions", "image_color"}]_vars

C8_Witness ==
  /\ startups = 2
  /\ Len(store) = 10
  /\ last.kind = "recipe_detail"
  /\ last.status = 200
  /\ last.recipe_id = 10

\* C9: a request that went through get_db holds an open session of its own
\* while it runs and none once it is over, however the handler left.
C9_SessionsReleased ==
  \A r \in Slots :
    /\ pc[r] = "idle" => session[r] = "closed"
    /\ pc[r] # "idle" => session[r] = "open"

C9_Witness ==
  /\ last.kind = "recipe_detail"
  /\ last.status = 404
  /\ Quiet
  /\ \A r \in Slots : session[r] = "closed"

\* C10: two processes running startup side by side against an empty table
\* insert the demo rows at most once.
C10_SeedOnceUnderInterleaving ==
  SeedRowCount(store) <= 8

=============================================================================
